---- MODULE Spec2Model ----
(***************************************************************************)
(* Model of the two import-rewriting scripts of scripts/:                  *)
(*   fix-imports.py       IMPORT_MAP, fix_imports_in_file, main            *)
(*   final-import-fix.py  FIXES, fix_file, main                            *)
(*                                                                         *)
(* Text is a sequence of tokens.  A token is a run of characters that the  *)
(* rule tables never split: the keyword "from " with its blank, a quote    *)
(* character, or a chunk of an import path.  Every path of both tables is  *)
(* written with the same chunks, so that a path that is a prefix or a      *)
(* suffix of another one ("./" inside "../", "rate-limit" inside           *)
(* "rate-limiter-tiers") is a prefix or suffix of its token sequence too.  *)
(***************************************************************************)
EXTENDS Integers, Sequences, FiniteSets, TLC

\* ------------------------------------------------------------------ bounds

\* Import lines per file content drawn for the rule-set specification.
MaxLines == 2
\* Files in the scanned tree of the run specification.
MaxFiles == 2
\* Runs of main() over the same tree in the rule-set specification.
MaxRuns == 2

\* ------------------------------------------------------------- rule tables

SQ == "'"
DQ == "\""
FROM == "from "

\* fix-imports.py: old path -> new path, in dict (insertion) order.
IMPORT_MAP ==
  << << <<"@/", "lib/", "feed-cache">>,
        <<"@/", "lib/", "caching/", "feed-cache">> >>,
     << <<"@/", "lib/", "program-registry">>,
        <<"@/", "lib/", "solana/", "program-registry">> >>,
     << <<"@/", "lib/", "program-activity">>,
        <<"@/", "lib/", "solana/", "program-activity">> >>,
     << <<"@/", "lib/", "solana-connection-client">>,
        <<"@/", "lib/", "solana/", "solana-connection-client">> >>,
     << <<"@/", "lib/", "solana-connection-server">>,
        <<"@/", "lib/", "solana/", "solana-connection-server">> >>,
     << <<"@/", "lib/", "logger">>,
        <<"@/", "lib/", "logging/", "logger">> >>,
     << <<"@/", "lib/", "ai-service-client">>,
        <<"@/", "lib/", "ai/", "ai-service-client">> >>,
     << <<"@/", "lib/", "graph-state-cache">>,
        <<"@/", "lib/", "caching/", "graph-state-cache">> >>,
     << <<"@/", "lib/", "anomaly-patterns">>,
        <<"@/", "lib/", "analytics/", "anomaly-patterns">> >>,
     << <<"@/", "lib/", "configurable-", "anomaly-patterns">>,
        <<"@/", "lib/", "analytics/", "configurable-", "anomaly-patterns">> >>,
     << <<"@/", "lib/", "sse-manager">>,
        <<"@/", "lib/", "api/", "sse-manager">> >>,
     << <<"@/", "lib/", "rate-limit">>,
        <<"@/", "lib/", "api/", "rate-limit">> >>,
     << <<"@/", "lib/", "rate-limit", "er-tiers">>,
        <<"@/", "lib/", "api/", "rate-limit", "er-tiers">> >>,
     << <<"@/", "lib/", "moralis-api">>,
        <<"@/", "lib/", "external-apis/", "moralis-api">> >>,
     << <<"@/", "lib/", "transaction-constants">>,
        <<"@/", "lib/", "blockchain/", "transaction-constants">> >>,
     << <<"./", "solana-connection-client">>,
        <<"./", "solana/", "solana-connection-client">> >>,
     << <<"./", "opensvm-rpc">>,
        <<"./", "solana/", "rpc/", "opensvm-rpc">> >>,
     << <<"./", "rate-limit">>,
        <<"./", "api/", "rate-limit">> >>,
     << <<"./", "logger">>,
        <<"./", "logging/", "logger">> >>,
     << <<"./", "user-history-utils">>,
        <<"./", "user/", "user-history-utils">> >>,
     << <<"./", "user/", "user-history-utils">>,
        <<".", "./", "user/", "user-history-utils">> >> >>

\* The character class ['\"] of the FIXES regexes.
QuoteClass == {SQ, DQ}

\* A literal piece of a regex: each token matches itself only.
Literal(path) == [i \in 1..Len(path) |-> {path[i]}]

\* One FIXES entry: from ['\"]<path>['\"]  ->  from '<new>'
FixEntry(path, new) ==
  << <<{FROM}, QuoteClass>> \o Literal(path) \o <<QuoteClass>>,
     <<FROM, SQ>> \o new \o <<SQ>> >>

\* final-import-fix.py: the path each FIXES regex spells out and the path of
\* its replacement, in list order.
FixPaths ==
  << << <<".", "./", ".", "./", ".", "./", "lib/", "solana-connection-server">>,
        <<"@/", "lib/", "solana/", "solana-connection-server">> >>,
     << <<".", "./", ".", "./", ".", "./", ".", "./", "lib/", "auth-server">>,
        <<"@/", "lib/", "api-auth/", "auth-server">> >>,
     << <<".", "./", ".", "./", ".", "./", ".", "./", ".", "./", "lib/", "qdrant">>,
        <<"@/", "lib/", "search/", "qdrant">> >>,
     << <<".", "./", ".", "./", ".", "./", ".", "./", "lib/", "qdrant", "-search-suggestions">>,
        <<"@/", "lib/", "search/", "qdrant", "-search-suggestions">> >>,
     << <<"@/", "lib/", "program-metadata-cache">>,
        <<"@/", "lib/", "solana/", "program-metadata-cache">> >> >>

\* final-import-fix.py: (regex, replacement), in list order.
FIXES == [i \in 1..Len(FixPaths) |-> FixEntry(FixPaths[i][1], FixPaths[i][2])]

\* ------------------------------------------------------- text substitution

\* F applied to the value of v: v is evaluated once, before F uses it.
Once(v, F(_)) == CHOOSE y \in {F(x) : x \in {v}} : TRUE

\* The pattern (a sequence of token classes) matches s at position i.
MatchAt(pattern, s, i) ==
  /\ i + Len(pattern) - 1 <= Len(s)
  /\ \A k \in 1..Len(pattern) : s[i + k - 1] \in pattern[k]

\* re.search / str.__contains__: the pattern occurs somewhere in s.
Contains(pattern, s) == \E i \in 1..Len(s) : MatchAt(pattern, s, i)

\* The substitution from position i on: a match is replaced and the scan
\* goes on after it, any other token is kept.
RECURSIVE SubFrom(_, _, _, _)
SubFrom(pattern, repl, s, i) ==
  IF i > Len(s) THEN <<>>
  ELSE IF MatchAt(pattern, s, i)
       THEN repl \o SubFrom(pattern, repl, s, i + Len(pattern))
       ELSE <<s[i]>> \o SubFrom(pattern, repl, s, i + 1)

\* re.sub(pattern, replacement, content): every non-overlapping match,
\* leftmost first, is replaced; the replacement text is not rescanned.
re_sub(pattern, replacement, content) == SubFrom(pattern, replacement, content, 1)

\* content.replace(old, new): every non-overlapping occurrence of the
\* literal old, leftmost first.
replace(content, old, new) == SubFrom(old, new, content, 1)

\* f"from '{path}'" and f'from "{path}"'
FromClause(q, path) == <<FROM, q>> \o path \o <<q>>

\* The two (old_pattern, new_pattern) pairs of one IMPORT_MAP entry; the
\* old pattern is matched token by token.
patterns(entry) ==
  << << Literal(FromClause(SQ, entry[1])), FromClause(SQ, entry[2]) >>,
     << Literal(FromClause(DQ, entry[1])), FromClause(DQ, entry[2]) >> >>

\* patterns, for every entry of IMPORT_MAP in order.
ImportPatterns == [i \in 1..Len(IMPORT_MAP) |-> patterns(IMPORT_MAP[i])]

\* if old_pattern in content: content = content.replace(old_pattern,
\* new_pattern); changes_made = True
ApplyPattern(st, pat) ==
  IF Contains(pat[1], st.content)
  THEN [content |-> replace(st.content, pat[1], pat[2]), changes_made |-> TRUE]
  ELSE st

\* for old_pattern, new_pattern in patterns: the single-quote pair first.
ApplyEntry(st, i) ==
  Once(ApplyPattern(st, ImportPatterns[i][1]),
       LAMBDA first : ApplyPattern(first, ImportPatterns[i][2]))

\* A faulty ApplyImportMap: the entries are taken last to first.
RECURSIVE ApplyImportMapBackwards(_, _)
ApplyImportMapBackwards(st, i) ==
  IF i > Len(IMPORT_MAP) THEN st
  ELSE Once(ApplyEntry(st, Len(IMPORT_MAP) + 1 - i),
            LAMBDA next : ApplyImportMapBackwards(next, i + 1))

\* for old_path, new_path in IMPORT_MAP.items(): entries i and later.
RECURSIVE ApplyImportMap(_, _)
ApplyImportMap(st, i) ==
  IF i > Len(IMPORT_MAP) THEN st
  ELSE Once(ApplyEntry(st, i), LAMBDA next : ApplyImportMap(next, i + 1))

\* for pattern, replacement in FIXES: entries i and later.
RECURSIVE ApplyFixes(_, _)
ApplyFixes(content, i) ==
  IF i > Len(FIXES) THEN content
  ELSE Once(re_sub(FIXES[i][1], FIXES[i][2], content),
            LAMBDA next : ApplyFixes(next, i + 1))

\* The in-memory part of fix_imports_in_file: the rewritten content and
\* whether the file is to be written (changes_made).
fix_imports_rules(original_content) ==
  LET st == ApplyImportMap([content |-> original_content, changes_made |-> FALSE], 1)
  IN  [content |-> st.content, write |-> st.changes_made]

\* A faulty fix_file_rules: the file is written whether or not it changed.
fix_file_always_writes(original) ==
  [content |-> ApplyFixes(original, 1), write |-> TRUE]

\* The in-memory part of fix_file: the rewritten content and whether the
\* file is to be written (content != original).
fix_file_rules(original) ==
  LET c == ApplyFixes(original, 1)
  IN  [content |-> c, write |-> c # original]

FIX_IMPORTS == "fix-imports.py"
FINAL_FIX == "final-import-fix.py"
Scripts == {FIX_IMPORTS, FINAL_FIX}

\* The in-memory part of the running script's per-file function.
Rules(s, content) ==
  IF s = FIX_IMPORTS THEN fix_imports_rules(content) ELSE fix_file_rules(content)


\* ------------------------------------------------------------- file system

\* ROOT = Path('/home/larp/aldrin/opensvm'), as path segments.
ROOT == << <<"home">>, <<"larp">>, <<"aldrin">>, <<"opensvm">> >>

dirs_to_scan ==
  << <<"app">>, <<"components">>, <<"lib">>, <<"hooks">>, <<"contexts">>,
     <<"utils">>, <<"types">> >>

\* for ext in ['*.ts', '*.tsx']
Exts == << ".ts", ".tsx" >>

\* The files a tree may hold, by their path below the root.  A path is a
\* sequence of segments and a segment a sequence of tokens.
RelPath ==
  << << <<"app">>, <<"page", ".tsx">> >>,
     << <<"lib">>, <<"utils", ".ts">> >>,
     << <<"lib">>, <<"node_modules">>, <<"pkg">>, <<"index", ".ts">> >>,
     << <<".next">>, <<"types">>, <<"routes", ".ts">> >>,
     << <<"components">>, <<"slider", ".next", ".tsx">> >>,
     << <<"scripts">>, <<"tool", ".ts">> >>,
     << <<"lib">>, <<"legacy", ".js">> >> >>

FileIds == 1..Len(RelPath)

\* root / rel
FilePath(f) == ROOT \o RelPath[f]

\* filepath.relative_to(root): the segments after the root's.
relative_to(path, root) == SubSeq(path, Len(root) + 1, Len(path))

RECURSIVE Join(_, _)
Join(segs, i) ==
  IF i > Len(segs) THEN <<>> ELSE <<"/">> \o segs[i] \o Join(segs, i + 1)

\* str(filepath): the segments, each after a "/".
StrPath(path) == Join(path, 1)

\* The last token of the file's name: its extension.
Suffix(path) == LET name == path[Len(path)] IN name[Len(name)]

\* dir_path.rglob(ext) of fix-imports.py: below one of dirs_to_scan.
DirIndex(f) ==
  LET hit == {d \in 1..Len(dirs_to_scan) : RelPath[f][1] = dirs_to_scan[d]}
  IN  IF hit = {} \/ Len(RelPath[f]) < 2 THEN 0 ELSE CHOOSE d \in hit : TRUE

ExtIndex(f) ==
  LET hit == {e \in 1..Len(Exts) : Suffix(RelPath[f]) = Exts[e]}
  IN  IF hit = {} THEN 0 ELSE CHOOSE e \in hit : TRUE

\* The files the loops of main() yield, before any exclusion test.
Globbed(s, files) ==
  IF s = FIX_IMPORTS
  THEN {f \in files : DirIndex(f) > 0 /\ ExtIndex(f) > 0}
  ELSE {f \in files : ExtIndex(f) > 0}

\* The loops' order: fix-imports.py by directory and then extension,
\* final-import-fix.py by extension; rglob's order within is the OS's.
LoopBefore(s, f, g) ==
  IF s = FIX_IMPORTS
  THEN \/ DirIndex(f) < DirIndex(g)
       \/ DirIndex(f) = DirIndex(g) /\ ExtIndex(f) < ExtIndex(g)
  ELSE ExtIndex(f) < ExtIndex(g)

\* 'node_modules' in str(filepath) or '.next' in str(filepath)
Excluded(f) ==
  \/ Contains(Literal(<<"node_modules">>), StrPath(FilePath(f)))
  \/ Contains(Literal(<<".next">>), StrPath(FilePath(f)))

\* -------------------------------------------------------------- contents

OtherPath == <<"@/", "lib/", "utils">>

TablePaths ==
  {IMPORT_MAP[i][j] : i \in 1..Len(IMPORT_MAP), j \in 1..2}
  \cup {FixPaths[i][j] : i \in 1..Len(FixPaths), j \in 1..2}

\* An import statement's from clause and the end of its line.
ImportLine(q1, path, q2) == <<FROM, q1>> \o path \o <<q2, "\n">>

\* Every path of either table, old or new, and a path of neither, between
\* any two quote characters.
Lines ==
  {ImportLine(q1, p, q2) : q1 \in QuoteClass, p \in TablePaths \cup {OtherPath}, q2 \in QuoteClass}

\* The lines that follow a first one in a longer text: the two imports
\* IMPORT_MAP's last entries hand on, and imports FIXES rewrites, one of
\* them between two different quote characters.
MoreLines ==
  { ImportLine(SQ, <<"./", "user-history-utils">>, SQ),
    ImportLine(DQ, <<"./", "user/", "user-history-utils">>, DQ),
    ImportLine(DQ, <<"@/", "lib/", "program-metadata-cache">>, SQ),
    ImportLine(DQ, <<".", "./", ".", "./", ".", "./", ".", "./", "lib/", "qdrant">>, DQ) }

\* The texts of at most n lines.
RECURSIVE Texts(_)
Texts(n) ==
  IF n = 0 THEN {<<>>}
  ELSE IF n = 1 THEN {<<>>} \cup Lines
  ELSE LET shorter == Texts(n - 1)
       IN  shorter \cup {t \o l : t \in shorter \ {<<>>}, l \in MoreLines}

\* File contents of the run specification: an import IMPORT_MAP rewrites,
\* an import FIXES rewrites, and an import neither table matches.
FileContents ==
  { ImportLine(SQ, <<"@/", "lib/", "logger">>, SQ),
    ImportLine(DQ, <<"@/", "lib/", "program-metadata-cache">>, DQ),
    ImportLine(SQ, <<"@/", "lib/", "logging/", "logger">>, SQ) }

\* -------------------------------------------------------------------- state

VARIABLES
  script,       \* which script runs
  disk,         \* file -> content on disk
  orig,         \* file -> content before the first run
  runs,         \* runs of main() started
  pc,           \* where main() is: loop, read, open, write, done, interrupted
  pending,      \* files the loops of this run have still to yield
  cur,          \* the file the per-file function works on (0: none)
  mem,          \* content: the in-memory text after the rules
  stdout,       \* lines printed by this run
  total_files,  \* fix-imports.py's total_files
  fixed_files,  \* fixed_files / fixed
  exit_code,    \* the process's exit status (-1: still running)
  visited,      \* files handed to the per-file function in this run
  skipped,      \* files the exclusion test skipped in this run
  opened,       \* files opened for writing in this run
  written,      \* files whose write completed in this run
  failed,       \* the errors caught in this run: the file, and at which step
  differs,      \* files whose rewritten content differed from the content read
  truthy        \* files for which the per-file function returned True

vars ==
  << script, disk, orig, runs, pc, pending, cur, mem, stdout, total_files,
     fixed_files, exit_code, visited, skipped, opened, written, failed,
     differs, truthy >>

Start(s, d) ==
  /\ script = s
  /\ disk = d
  /\ orig = d
  /\ runs = 1
  /\ pc = "loop"
  /\ pending = Globbed(s, DOMAIN d)
  /\ cur = 0
  /\ mem = <<>>
  /\ stdout = <<>>
  /\ total_files = 0
  /\ fixed_files = 0
  /\ exit_code = -1
  /\ visited = {}
  /\ skipped = {}
  /\ opened = {}
  /\ written = {}
  /\ failed = {}
  /\ differs = {}
  /\ truthy = {}

Trees == {t \in SUBSET FileIds : Cardinality(t) <= MaxFiles}

Init ==
  \E s \in Scripts, t \in Trees :
    \E d \in [t -> FileContents] : Start(s, d)


\* ------------------------------------------------------------------ output

\* print(f"✓ Fixed: {filepath.relative_to(root)}") / print(f"✓ {...}")
FixedLine(f) == [kind |-> "fixed", path |-> relative_to(FilePath(f), ROOT)]

\* print(f"Error processing {filepath}: {e}") / print(f"Error: {filepath}: {e}")
ErrorLine(f) == [kind |-> "error", path |-> FilePath(f)]

\* fix-imports.py prints fixed_files/total_files, final-import-fix.py
\* prints fixed alone.
SummaryLine(s, fixed, total) ==
  IF s = FIX_IMPORTS
  THEN [kind |-> "summary", fixed |-> fixed, total |-> total]
  ELSE [kind |-> "summary", fixed |-> fixed]

\* ----------------------------------------------------------------- actions

\* The per-file function returns False: back to the loop of main().
ReturnFalse ==
  /\ pc' = "loop"
  /\ cur' = 0
  /\ UNCHANGED <<fixed_files, truthy>>

\* The per-file function returns True: main() prints the file and counts it.
ReturnTrue ==
  /\ pc' = "loop"
  /\ cur' = 0
  /\ stdout' = Append(stdout, FixedLine(cur))
  /\ fixed_files' = fixed_files + 1
  /\ truthy' = truthy \cup {cur}

\* except Exception as e: print(...); return False
Raise(at) ==
  /\ stdout' = Append(stdout, ErrorLine(cur))
  /\ failed' = failed \cup {[file |-> cur, at |-> at]}
  /\ ReturnFalse

\* The exclusion test of final-import-fix.py's main(); fix-imports.py has none.
SkipTest(s, f) == s = FINAL_FIX /\ Excluded(f)

\* The loops of main() yield the next file.
Visit ==
  /\ pc = "loop"
  /\ \E f \in pending :
       /\ \A g \in pending : ~LoopBefore(script, g, f)
       /\ pending' = pending \ {f}
       /\ IF SkipTest(script, f)
          THEN /\ skipped' = skipped \cup {f}
               /\ UNCHANGED <<pc, cur, total_files, visited>>
          ELSE /\ pc' = "read"
               /\ cur' = f
               /\ total_files' = IF script = FIX_IMPORTS THEN total_files + 1
                                 ELSE total_files
               /\ visited' = visited \cup {f}
               /\ UNCHANGED skipped
  /\ UNCHANGED <<script, disk, orig, runs, mem, stdout, fixed_files, exit_code,
                 opened, written, failed, differs, truthy>>

\* open(filepath, 'r'), f.read() and the rules, all in memory.  (The rules
\* are computed once: r ranges over the one result.)
ReadOk ==
  /\ pc = "read"
  /\ \E r \in {Rules(script, disk[cur])} :
         /\ mem' = r.content
         /\ differs' = IF r.content # disk[cur] THEN differs \cup {cur} ELSE differs
         /\ IF r.write
            THEN pc' = "open" /\ UNCHANGED <<cur, fixed_files, truthy>>
            ELSE ReturnFalse
  /\ UNCHANGED <<script, disk, orig, runs, pending, stdout, total_files,
                 exit_code, visited, skipped, opened, written, failed>>

\* The read raises (permission, encoding, the file is gone).
ReadFail ==
  /\ pc = "read"
  /\ Raise("read")
  /\ UNCHANGED <<script, disk, orig, runs, pending, mem, total_files,
                 exit_code, visited, skipped, opened, written, differs>>

\* open(filepath, 'w'): the file is truncated.
OpenOk ==
  /\ pc = "open"
  /\ disk' = [disk EXCEPT ![cur] = <<>>]
  /\ opened' = opened \cup {cur}
  /\ pc' = "write"
  /\ UNCHANGED <<script, orig, runs, pending, cur, mem, stdout, total_files,
                 fixed_files, exit_code, visited, skipped, written, failed,
                 differs, truthy>>

\* open(filepath, 'w') raises: the file is not opened.
OpenFail ==
  /\ pc = "open"
  /\ Raise("open")
  /\ UNCHANGED <<script, disk, orig, runs, pending, mem, total_files,
                 exit_code, visited, skipped, opened, written, differs>>

\* f.write(content) and the close of the with block.
WriteOk ==
  /\ pc = "write"
  /\ disk' = [disk EXCEPT ![cur] = mem]
  /\ written' = written \cup {cur}
  /\ ReturnTrue
  /\ UNCHANGED <<script, orig, runs, pending, mem, total_files, exit_code,
                 visited, skipped, opened, failed, differs>>

\* The write or the flush at close raises: some prefix reached the disk.
WriteFail ==
  /\ pc = "write"
  /\ \E k \in 0..(Len(mem) - 1) : disk' = [disk EXCEPT ![cur] = SubSeq(mem, 1, k)]
  /\ Raise("write")
  /\ UNCHANGED <<script, orig, runs, pending, mem, total_files, exit_code,
                 visited, skipped, opened, written, differs>>

\* The loops are over: the summary line, and the process ends normally.
Summary ==
  /\ pc = "loop"
  /\ pending = {}
  /\ stdout' = Append(stdout, SummaryLine(script, fixed_files, total_files))
  /\ pc' = "done"
  /\ exit_code' = 0
  /\ UNCHANGED <<script, disk, orig, runs, pending, cur, mem, total_files,
                 fixed_files, visited, skipped, opened, written, failed,
                 differs, truthy>>

\* KeyboardInterrupt: no except clause catches it (it is no Exception), the
\* with block closes the file, and the process ends with a traceback.  At
\* "write" the file is open and truncated; the close flushes what f.write
\* had buffered, all of the content or nothing.
Interrupt ==
  /\ pc \in {"loop", "read", "open", "write"}
  /\ pc' = "interrupted"
  /\ exit_code' = 130
  /\ IF pc = "write"
     THEN \E c \in {<<>>, mem} : disk' = [disk EXCEPT ![cur] = c]
     ELSE UNCHANGED disk
  /\ UNCHANGED <<script, orig, runs, pending, cur, mem, stdout, total_files,
                 fixed_files, visited, skipped, opened, written, failed,
                 differs, truthy>>

\* The script is started again over the tree as the last run left it.
Rerun ==
  /\ pc = "done"
  /\ runs < MaxRuns
  /\ runs' = runs + 1
  /\ pc' = "loop"
  /\ pending' = Globbed(script, DOMAIN disk)
  /\ cur' = 0
  /\ mem' = <<>>
  /\ stdout' = <<>>
  /\ total_files' = 0
  /\ fixed_files' = 0
  /\ exit_code' = -1
  /\ visited' = {}
  /\ skipped' = {}
  /\ opened' = {}
  /\ written' = {}
  /\ failed' = {}
  /\ differs' = {}
  /\ truthy' = {}
  /\ UNCHANGED <<script, disk, orig>>

Next ==
  \/ Visit
  \/ ReadOk
  \/ ReadFail
  \/ OpenOk
  \/ OpenFail
  \/ WriteOk
  \/ WriteFail
  \/ Summary
  \/ Interrupt

\* One run of either script over a tree of at most MaxFiles files.
Spec == Init /\ [][Next]_vars

\* The rule sets alone: runs without I/O errors or interrupts over a tree
\* holding one file, lib/utils.ts, whose content is any text of at most
\* MaxLines import lines.
RuleFile == CHOOSE f \in FileIds : RelPath[f] = << <<"lib">>, <<"utils", ".ts">> >>

RuleInit ==
  \E s \in Scripts, t \in Texts(MaxLines) : Start(s, (RuleFile :> t))

RuleNext ==
  \/ Visit
  \/ ReadOk
  \/ OpenOk
  \/ WriteOk
  \/ Summary
  \/ Rerun

RuleSpec == RuleInit /\ [][RuleNext]_vars


\* ------------------------------------------------------------------ claims

\* The files an error was caught for.
FailedFiles == {x.file : x \in failed}

\* The lines of stdout of one kind.
LinesOfKind(k) == {i \in 1..Len(stdout) : stdout[i].kind = k}

\* The success-marker lines printed for file f.
FixedLinesOf(f) ==
  {i \in LinesOfKind("fixed") : stdout[i].path = relative_to(FilePath(f), ROOT)}

\* The script's table as (old path, new path) pairs.
PathTable(s) == IF s = FIX_IMPORTS THEN IMPORT_MAP ELSE FixPaths

\* Some rule of the script's table matches the text.
SomeRuleMatches(s, text) ==
  IF s = FIX_IMPORTS
  THEN \E j \in 1..Len(IMPORT_MAP), k \in 1..2 : Contains(ImportPatterns[j][k][1], text)
  ELSE \E j \in 1..Len(FIXES) : Contains(FIXES[j][1], text)

\* The path between the quotes of a one-line text.
PathOf(line) == SubSeq(line, 3, Len(line) - 2)

\* A directory segment of the file's path is exactly node_modules or .next.
InBuildDir(f) ==
  \E k \in 1..(Len(RelPath[f]) - 1) : RelPath[f][k] \in {<<"node_modules">>, <<".next">>}

\* C1: the rule set of either script is idempotent, T(T(c)) = T(c).  After a
\* run without errors the file holds the rules' output; in every later run
\* over that tree the rules give back the content they read, no file is
\* opened for writing or written, and no file is printed or counted as fixed.
C1_Idempotent ==
  /\ \A f \in visited : pc \in {"loop", "done"} => disk[f] = mem
  /\ runs > 1 =>
       /\ \A f \in visited : pc # "read" => mem = disk[f]
       /\ opened = {} /\ written = {} /\ differs = {} /\ truthy = {}
       /\ fixed_files = 0
       /\ LinesOfKind("fixed") = {}
       /\ pc = "done" => stdout[Len(stdout)].fixed = 0

\* C1's case: a first run rewrote the file and a second run is over.
C1_SecondRunAfterRewrite ==
  /\ runs = 2
  /\ pc = "done"
  /\ \E f \in visited : disk[f] # orig[f]

\* C2, as amended: once the per-file function has returned for a file, an
\* open for writing was attempted iff the rewritten content differs from the
\* content read, and True was returned iff it differs and neither the open
\* nor the write raised; a file whose content does not differ is not opened
\* for writing, keeps its content, is not printed and is not counted.
C2_WriteBackOnChange ==
  /\ \A f \in visited : f # cur =>
       /\ (f \in opened \/ [file |-> f, at |-> "open"] \in failed) <=> f \in differs
       /\ f \in truthy <=> (f \in differs /\ f \notin FailedFiles)
       /\ f \in truthy <=> f \in written
       /\ FixedLinesOf(f) # {} <=> f \in truthy
       /\ f \notin differs => f \notin opened /\ disk[f] = orig[f]
  /\ pc \in {"open", "write"} => cur \in differs
  /\ opened \subseteq differs
  /\ fixed_files = Cardinality(truthy)
  /\ \A f \in DOMAIN disk : f \notin opened => disk[f] = orig[f]

\* C2's case: a run is over in which one file was left alone and another
\* one was rewritten.
C2_OneKeptOneRewritten ==
  /\ pc = "done"
  /\ \E f \in visited, g \in truthy :
       /\ f \notin differs /\ f \notin FailedFiles /\ disk[f] = orig[f]
       /\ disk[g] # orig[g]

\* C2 as stated: the file is opened for writing and True is returned iff
\* the rewritten content differs from the content read.
C2_AsStated ==
  \A f \in visited : f # cur => ((f \in opened /\ f \in truthy) <=> f \in differs)

\* C3 as stated: for every rule of the running script, an import of the old
\* path between two double quotes or two single quotes is rewritten to a new
\* path of the table (which one is C10's matter) between the same quotes.
C3_QuotingSymmetry ==
  (pc = "done" /\ runs = 1) =>
    \A f \in visited, i \in 1..Len(PathTable(script)), q \in QuoteClass :
      orig[f] = ImportLine(q, PathTable(script)[i][1], q)
        => \E j \in 1..Len(PathTable(script)) :
             disk[f] = ImportLine(q, PathTable(script)[j][2], q)

\* C4 as stated: in a run of either script no file below a node_modules or
\* .next directory is opened for writing.
C4_ExclusionRespected ==
  \A f \in DOMAIN disk : InBuildDir(f) => f \notin opened

\* C5 as stated: when exactly one file raised, at its read, every other
\* file the loops yielded was processed and written as usual, the failing
\* file is unchanged, and the summary line reports 1 failure and N-1
\* successful attempts.
C5_PartialFailureIsolation ==
  (pc = "done" /\ Cardinality(failed) = 1 /\ \A x \in failed : x.at = "read") =>
    LET summary == stdout[Len(stdout)]
    IN  /\ visited = Globbed(script, DOMAIN disk) \ skipped
        /\ \A f \in FailedFiles : disk[f] = orig[f]
        /\ \A f \in visited \ FailedFiles : f \in differs => f \in written
        /\ summary.kind = "summary"
        /\ "failed" \in DOMAIN summary /\ summary.failed = 1
        /\ "attempted" \in DOMAIN summary
        /\ summary.attempted = Cardinality(visited) - 1

\* C6 as stated: a run that ends exits with 0 when no file failed and with
\* a non-zero status when a read or a write raised.
C6_ExitStatusReflectsFailures ==
  pc = "done" =>
    /\ failed = {} => exit_code = 0
    /\ failed # {} => exit_code # 0

\* C7 as stated: at the end of a run that wrote a file, every written file
\* has exactly one success line with its path below the root, no other file
\* has one, the single summary line is the last line, and it states the
\* number of success lines out of the number of files scanned.
C7_Reporting ==
  (pc = "done" /\ written # {}) =>
    LET summary == stdout[Len(stdout)]
    IN  /\ \A f \in written : Cardinality(FixedLinesOf(f)) = 1
        /\ \A f \in DOMAIN disk \ written : FixedLinesOf(f) = {}
        /\ LinesOfKind("summary") = {Len(stdout)}
        /\ summary.fixed = Cardinality(LinesOfKind("fixed"))
        /\ "total" \in DOMAIN summary
        /\ summary.total = Cardinality(visited)

\* C8 as stated: whenever no write step is under way, also after an
\* interrupt or an error of the write step, every file on disk holds either
\* the content it had before the run or the fully rewritten content.
C8_NoPartiallyWrittenFile ==
  pc # "write" =>
    \A f \in DOMAIN disk :
      disk[f] = orig[f] \/ disk[f] = Rules(script, orig[f]).content

\* C9 as stated: final-import-fix.py skips a file iff a directory segment of
\* its path is exactly node_modules or .next; every other file its loops
\* yield is passed to fix_file.
C9_ExclusionBySegment ==
  script = FINAL_FIX =>
    /\ \A f \in skipped : InBuildDir(f)
    /\ \A f \in visited : ~InBuildDir(f)
    /\ pc = "done" =>
         \A f \in Globbed(script, DOMAIN disk) : ~InBuildDir(f) => f \in visited

\* C10 as stated: when a file held an import of a rule's old path, no rule
\* of the script's table matches that rule's replacement, and the import is
\* rewritten to the new path of that rule.
C10_RulesDoNotFeedRules ==
  (pc = "done" /\ runs = 1) =>
    \A f \in visited, i \in 1..Len(PathTable(script)), q \in QuoteClass :
      orig[f] = ImportLine(q, PathTable(script)[i][1], q)
        => /\ ~SomeRuleMatches(script, FromClause(q, PathTable(script)[i][2]))
           /\ PathOf(disk[f]) = PathTable(script)[i][2]

====
